---- MODULE Spec2Model ----
(***************************************************************************)
(* Probabilistic record linkage of two employee tables                     *)
(* (prob_data_link.py): load, preprocess birthdates, all-vs-all index,     *)
(* Jaro-Winkler / exact comparison, match score, join of the original      *)
(* fields, the two saved tables.                                           *)
(*                                                                         *)
(* A DataFrame is a record [index, columns, rows]: index is the sequence   *)
(* of row labels, columns the sequence of column names, rows the sequence  *)
(* of rows, each a sequence of cells in column order.  A cell is a tagged  *)
(* record [t, v].  Scores are fixed-point numbers: Scale stands for 1.0.   *)
(***************************************************************************)
EXTENDS Integers, Sequences, FiniteSets, TLC

\* sheet1, sheet2: the tables held by employee_records_1.xlsx and _2.xlsx;
\* all_csv, linked_csv: the two files the script writes
VARIABLES pc, sheet1, sheet2, df1, df2, candidate_links, features, pairs,
          df1_prefixed, df2_prefixed, merged, matches, all_csv, linked_csv

vars == <<pc, sheet1, sheet2, df1, df2, candidate_links, features, pairs,
          df1_prefixed, df2_prefixed, merged, matches, all_csv, linked_csv>>

(***************************************************************************)
(* Bounds of the model.                                                    *)
(***************************************************************************)
\* most rows of a table read from a spreadsheet
MaxRows == 2

(***************************************************************************)
(* Cells.                                                                  *)
(***************************************************************************)
\* 1.0 as a fixed-point number: every Jaro-Winkler score of two strings of
\* at most 6 characters is a whole multiple of 1/(3 * 10 * 60)
Scale == 3 * 10 * 60

NaN == [t |-> "nan", v |-> <<>>]
NaT == [t |-> "nat", v |-> <<>>]
Str(s) == [t |-> "str", v |-> s]
IntV(n) == [t |-> "int", v |-> <<n>>]
Float(x) == [t |-> "float", v |-> <<x>>]
Timestamp(y, m, d) == [t |-> "date", v |-> <<y, m, d>>]

isnull(c) == c.t \in {"nan", "nat"}

Max(a, b) == IF a >= b THEN a ELSE b
Min(a, b) == IF a <= b THEN a ELSE b

RECURSIVE SumSeq(_)
SumSeq(s) == IF s = <<>> THEN 0 ELSE Head(s) + SumSeq(Tail(s))

RECURSIVE Flatten(_)
Flatten(ss) == IF ss = <<>> THEN <<>> ELSE Head(ss) \o Flatten(Tail(ss))

(***************************************************************************)
(* pd.to_datetime(column, errors='coerce') on one cell: a datetime cell    *)
(* stays, a missing cell is NaT, a string is parsed as YYYY-MM-DD and is   *)
(* NaT when it is no date.                                                 *)
(***************************************************************************)
Digits == [c \in {"0", "1", "2", "3", "4", "5", "6", "7", "8", "9"} |->
            CASE c = "0" -> 0 [] c = "1" -> 1 [] c = "2" -> 2 [] c = "3" -> 3
              [] c = "4" -> 4 [] c = "5" -> 5 [] c = "6" -> 6 [] c = "7" -> 7
              [] c = "8" -> 8 [] c = "9" -> 9]

RECURSIVE ParseInt(_, _)
ParseInt(s, acc) ==
  IF s = <<>> THEN acc ELSE ParseInt(Tail(s), 10 * acc + Digits[Head(s)])

IsLeap(y) == (y % 4 = 0 /\ y % 100 # 0) \/ y % 400 = 0

DaysInMonth(y, m) ==
  IF m = 2 THEN (IF IsLeap(y) THEN 29 ELSE 28)
  ELSE IF m \in {4, 6, 9, 11} THEN 30 ELSE 31

ParseDate(s) ==
  IF /\ Len(s) = 10
     /\ s[5] = "-" /\ s[8] = "-"
     /\ \A i \in {1, 2, 3, 4, 6, 7, 9, 10} : s[i] \in DOMAIN Digits
  THEN LET y == ParseInt(SubSeq(s, 1, 4), 0)
           m == ParseInt(SubSeq(s, 6, 7), 0)
           d == ParseInt(SubSeq(s, 9, 10), 0)
       IN  IF y >= 1 /\ m \in 1..12 /\ d >= 1 /\ d <= DaysInMonth(y, m)
           THEN Timestamp(y, m, d) ELSE NaT
  ELSE NaT

\* errors='ignore' in place of errors='coerce': what is no date stays as it is
to_datetime_ignore(c) ==
  CASE c.t = "date" -> c
    [] c.t = "str" -> (IF ParseDate(c.v) = NaT THEN c ELSE ParseDate(c.v))
    [] OTHER -> NaT

to_datetime(c) ==
  CASE c.t = "date" -> c
    [] c.t = "str" -> ParseDate(c.v)
    [] OTHER -> NaT

(***************************************************************************)
(* Jaro-Winkler similarity of two strings (method='jarowinkler').          *)
(***************************************************************************)
\* The first unflagged position of s2 in low..hi holding ch, or 0.
FirstMatch(s2, f2, ch, low, hi) ==
  LET cand == {j \in low..hi : j \notin f2 /\ s2[j] = ch}
  IN  IF cand = {} THEN 0 ELSE CHOOSE j \in cand : \A k \in cand : j <= k

\* The flags of the matched characters of s1 and s2, scanning s1 from i on.
RECURSIVE MatchFlags(_, _, _, _, _, _)
MatchFlags(s1, s2, range, i, f1, f2) ==
  IF i > Len(s1) THEN <<f1, f2>>
  ELSE LET j == FirstMatch(s2, f2, s1[i], Max(1, i - range),
                           Min(i + range, Len(s2)))
       IN  IF j = 0 THEN MatchFlags(s1, s2, range, i + 1, f1, f2)
           ELSE MatchFlags(s1, s2, range, i + 1, f1 \cup {i}, f2 \cup {j})

\* The flagged characters of s, in order.
RECURSIVE Flagged(_, _, _)
Flagged(s, f, i) ==
  IF i > Len(s) THEN <<>>
  ELSE (IF i \in f THEN <<s[i]>> ELSE <<>>) \o Flagged(s, f, i + 1)

\* The length of the common prefix of s1 and s2, up to j characters.
RECURSIVE CommonPrefix(_, _, _, _)
CommonPrefix(s1, s2, i, j) ==
  IF i < j /\ s1[i + 1] = s2[i + 1] THEN CommonPrefix(s1, s2, i + 1, j) ELSE i

\* the prefix boost without its factor (1 - weight)
jaro_winkler_unscaled_boost(s1, s2) ==
  IF Len(s1) = 0 \/ Len(s2) = 0 THEN 0
  ELSE
    LET range == Max(0, (Max(Len(s1), Len(s2)) \div 2) - 1)
        fl == MatchFlags(s1, s2, range, 1, {}, {})
        common == Cardinality(fl[1])
        m1 == Flagged(s1, fl[1], 1)
        m2 == Flagged(s2, fl[2], 1)
        trans == Cardinality({k \in 1..common : m1[k] # m2[k]}) \div 2
    IN  IF common = 0 THEN 0
        ELSE
          LET weight == ((Scale * common) \div Len(s1)
                         + (Scale * common) \div Len(s2)
                         + (Scale * (common - trans)) \div common) \div 3
              i == CommonPrefix(s1, s2, 0, Min(Min(Len(s1), Len(s2)), 4))
          IN  IF 10 * weight > 7 * Scale
              THEN weight + (i * Scale) \div 10
              ELSE weight

jaro_winkler(s1, s2) ==
  IF Len(s1) = 0 \/ Len(s2) = 0 THEN 0
  ELSE
    LET range == Max(0, (Max(Len(s1), Len(s2)) \div 2) - 1)
        fl == MatchFlags(s1, s2, range, 1, {}, {})
        common == Cardinality(fl[1])
        m1 == Flagged(s1, fl[1], 1)
        m2 == Flagged(s2, fl[2], 1)
        trans == Cardinality({k \in 1..common : m1[k] # m2[k]}) \div 2
    IN  IF common = 0 THEN 0
        ELSE
          LET weight == ((Scale * common) \div Len(s1)
                         + (Scale * common) \div Len(s2)
                         + (Scale * (common - trans)) \div common) \div 3
              i == CommonPrefix(s1, s2, 0, Min(Min(Len(s1), Len(s2)), 4))
          IN  IF 10 * weight > 7 * Scale
              THEN weight + (i * (Scale - weight)) \div 10
              ELSE weight

(***************************************************************************)
(* DataFrame operations.                                                   *)
(***************************************************************************)
DataFrame(index, columns, rows) ==
  [index |-> index, columns |-> columns, rows |-> rows]

NoFrame == DataFrame(<<>>, <<>>, <<>>)

\* pandas' default index of a table of n rows: 0, 1, ..., n - 1
RangeIndex(n) == [k \in 1..n |-> k - 1]

ColumnSet(df) == {df.columns[k] : k \in 1..Len(df.columns)}

ColPos(df, name) == CHOOSE k \in 1..Len(df.columns) : df.columns[k] = name

\* df.loc[label]: the row of df under an index label
loc(df, label) ==
  df.rows[CHOOSE k \in 1..Len(df.index) : df.index[k] = label]

\* df[name] = values, for a column df has
SetColumn(df, name, values) ==
  LET p == ColPos(df, name)
  IN  [df EXCEPT !.rows =
         [k \in 1..Len(df.rows) |-> [df.rows[k] EXCEPT ![p] = values[k]]]]

\* df[name]
GetColumn(df, name) ==
  [k \in 1..Len(df.rows) |-> df.rows[k][ColPos(df, name)]]

\* the tag appended to the column names instead of prepended
add_suffix(df, prefix) ==
  [df EXCEPT !.columns = [k \in 1..Len(df.columns) |-> df.columns[k] \o prefix]]

add_prefix(df, prefix) ==
  [df EXCEPT !.columns = [k \in 1..Len(df.columns) |-> prefix \o df.columns[k]]]

\* The value of a numeric cell as a fixed-point number; sum() skips the rest.
NumVal(c) ==
  CASE c.t = "float" -> c.v[1]
    [] c.t = "int" -> c.v[1] * Scale
    [] OTHER -> 0

\* the sum taken after reset_index(): the two index levels are summed too
sum_axis1_with_index(df) ==
  [k \in 1..Len(df.rows) |->
     SumSeq([c \in 1..Len(df.columns) |-> NumVal(df.rows[k][c])])
       + (df.index[k][1] + df.index[k][2]) * Scale]

\* df.sum(axis=1): per row, the sum of the cells of all (numeric) columns
sum_axis1(df) ==
  [k \in 1..Len(df.rows) |->
     SumSeq([c \in 1..Len(df.columns) |-> NumVal(df.rows[k][c])])]

\* df[name] = values, for a new column
AddColumn(df, name, values) ==
  [df EXCEPT !.columns = Append(df.columns, name),
             !.rows = [k \in 1..Len(df.rows) |-> Append(df.rows[k], values[k])]]

\* reset_index() of a frame indexed by an unnamed two-level MultiIndex
reset_index(df) ==
  DataFrame(RangeIndex(Len(df.rows)),
            <<"level_0", "level_1">> \o df.columns,
            [k \in 1..Len(df.rows) |->
               <<IntV(df.index[k][1]), IntV(df.index[k][2])>> \o df.rows[k]])

\* the join by the position of the left row instead of by its key
merge_by_position(left, key, right) ==
  LET blank == [c \in 1..Len(right.columns) |-> NaN]
      rows == [k \in 1..Len(left.rows) |->
                 left.rows[k] \o (IF k <= Len(right.rows) THEN right.rows[k]
                                  ELSE blank)]
  IN  DataFrame(RangeIndex(Len(rows)), left.columns \o right.columns, rows)

\* left.merge(right, left_on=key, right_index=True, how='left'): every row of
\* left, in order, once per row of right whose index label equals its key
\* (with missing cells when there is none).  The index of the result is never
\* read again and is kept as a RangeIndex.
merge_left(left, key, right) ==
  LET p == ColPos(left, key)
      hits(r) == SelectSeq([k \in 1..Len(right.index) |-> k],
                           LAMBDA k : right.index[k] = r[p].v[1])
      blank == [c \in 1..Len(right.columns) |-> NaN]
      joined(r) == IF hits(r) = <<>> THEN <<r \o blank>>
                   ELSE [h \in 1..Len(hits(r)) |-> r \o right.rows[hits(r)[h]]]
      rows == Flatten([k \in 1..Len(left.rows) |-> joined(left.rows[k])])
  IN  DataFrame(RangeIndex(Len(rows)), left.columns \o right.columns, rows)

\* df.drop(columns=names)
drop(df, names) ==
  LET keep == SelectSeq([k \in 1..Len(df.columns) |-> k],
                        LAMBDA k : df.columns[k] \notin names)
  IN  [df EXCEPT !.columns = [k \in 1..Len(keep) |-> df.columns[keep[k]]],
                 !.rows = [r \in 1..Len(df.rows) |->
                             [k \in 1..Len(keep) |-> df.rows[r][keep[k]]]]]

\* df[mask]: the rows whose mask is true, in order, under their labels
Filter(df, mask) ==
  LET keep == SelectSeq([k \in 1..Len(df.rows) |-> k], LAMBDA k : mask[k])
  IN  [df EXCEPT !.index = [k \in 1..Len(keep) |-> df.index[keep[k]]],
                 !.rows = [k \in 1..Len(keep) |-> df.rows[keep[k]]]]

\* df.to_csv(path, index=False): the header and the rows, without the index
NoFile == [written |-> FALSE, columns |-> <<>>, rows |-> <<>>]
to_csv(df) == [written |-> TRUE, columns |-> df.columns, rows |-> df.rows]

(***************************************************************************)
(* The steps of the script.                                                *)
(***************************************************************************)
\* the pairs of a table with itself: no record is paired with its own label
full_index_distinct(x, x_link) ==
  SelectSeq(
    Flatten([a \in 1..Len(x.index) |->
               [b \in 1..Len(x_link.index) |-> <<x.index[a], x_link.index[b]>>]]),
    LAMBDA p : p[1] # p[2])

\* indexer.full(); indexer.index(df1, df2): the product of the two indexes,
\* the labels of df1 outermost
full_index(x, x_link) ==
  Flatten([a \in 1..Len(x.index) |->
             [b \in 1..Len(x_link.index) |-> <<x.index[a], x_link.index[b]>>]])

\* missing_value 1.0 in place of 0.0
string_feature_missing_agrees(a, b) ==
  IF isnull(a) \/ isnull(b) THEN Scale ELSE jaro_winkler(a.v, b.v)

\* compare.string(..., method='jarowinkler'): missing_value is 0.0
string_feature(a, b) ==
  IF isnull(a) \/ isnull(b) THEN 0 ELSE jaro_winkler(a.v, b.v)

\* two missing values taken as equal
exact_feature_null_equal(a, b) ==
  IF a = b THEN Scale ELSE 0

\* compare.exact(...): agree_value 1, disagree_value 0, missing_value 0;
\* a missing value equals nothing, itself included
exact_feature(a, b) ==
  IF ~isnull(a) /\ ~isnull(b) /\ a = b THEN Scale ELSE 0

\* the comparisons registered on compare, in order
Comparisons ==
  << [kind |-> "string", left |-> "first_name", right |-> "first_name",
      label |-> "prob_first_name"],
     [kind |-> "string", left |-> "last_name", right |-> "last_name",
      label |-> "prob_last_name"],
     [kind |-> "exact", left |-> "birthdate", right |-> "birthdate",
      label |-> "prob_birthdate"],
     [kind |-> "string", left |-> "city", right |-> "city",
      label |-> "prob_city"] >>

\* compare.compute raises KeyError when a compared column is not in a table
KeyError(x, x_link) ==
  \E k \in 1..Len(Comparisons) :
    \/ Comparisons[k].left \notin ColumnSet(x)
    \/ Comparisons[k].right \notin ColumnSet(x_link)

\* compare.compute(candidate_links, df1, df2): one row of scores per pair
compute(links, x, x_link) ==
  LET score(c, p) ==
        LET a == loc(x, p[1])[ColPos(x, c.left)]
            b == loc(x_link, p[2])[ColPos(x_link, c.right)]
        IN  IF c.kind = "string" THEN string_feature(a, b)
            ELSE exact_feature(a, b)
  IN  DataFrame(links,
                [k \in 1..Len(Comparisons) |-> Comparisons[k].label],
                [r \in 1..Len(links) |->
                   [k \in 1..Len(Comparisons) |->
                      Float(score(Comparisons[k], links[r]))]])

\* the threshold of a high-confidence match
Threshold == 3

\* >= in place of >
high_confidence_inclusive(df, row) ==
  row[ColPos(df, "match_score")].v[1] >= Threshold * Scale

\* merged['match_score'] > 3.0
high_confidence(df, row) ==
  row[ColPos(df, "match_score")].v[1] > Threshold * Scale

(***************************************************************************)
(* The two spreadsheets.                                                   *)
(***************************************************************************)
Compared == <<"first_name", "last_name", "birthdate", "city">>

Jon == <<"J", "o", "n">>
John == <<"J", "o", "h", "n">>
Smith == <<"S", "m", "i", "t", "h">>
Reno == <<"R", "e", "n", "o">>
Rome == <<"R", "o", "m", "e">>
Iso1990 == <<"1", "9", "9", "0", "-", "0", "1", "-", "0", "1">>
Iso1985 == <<"1", "9", "8", "5", "-", "1", "2", "-", "3", "1">>
Feb30 == <<"1", "9", "9", "0", "-", "0", "2", "-", "3", "0">>
NoDate == <<"n", "/", "a">>

\* the cells a column of a spreadsheet of several rows may hold
SheetValues ==
  [c \in {"first_name", "last_name", "birthdate", "city"} |->
     CASE c = "first_name" -> {Str(Jon), Str(John)}
       [] c = "last_name" -> {Str(Smith)}
       [] c = "birthdate" -> {Str(Iso1990)}
       [] c = "city" -> {Str(Reno), NaN}]

\* the cells a column of a spreadsheet of one row may hold
WideValues ==
  [c \in {"first_name", "last_name", "birthdate", "city"} |->
     CASE c = "first_name" -> {NaN, Str(Jon), Str(John)}
       [] c = "last_name" -> {NaN, Str(Smith)}
       [] c = "birthdate" -> {NaN, Str(Iso1990), Timestamp(1990, 1, 1),
                              Str(Iso1985), Str(Feb30), Str(NoDate)}
       [] c = "city" -> {NaN, Str(Reno), Str(Rome)}]

RECURSIVE RowsOver(_, _)
RowsOver(cols, values) ==
  IF cols = <<>> THEN {<<>>}
  ELSE {<<c>> \o r : c \in values[Head(cols)], r \in RowsOver(Tail(cols), values)}

\* pd.read_excel of a sheet with an id column and the compared columns but
\* the dropped one ("" drops none), of lo to hi rows
Sheets(idcol, idbase, values, lo, hi) ==
  UNION {
    LET cols == SelectSeq(Compared, LAMBDA c : c # dropped)
    IN  {DataFrame(RangeIndex(n), <<idcol>> \o cols,
                   [i \in 1..n |-> <<IntV(idbase + i)>> \o rows[i]]) :
           rows \in [1..n -> RowsOver(cols, values)]} :
    dropped \in {""} \cup {Compared[k] : k \in 1..Len(Compared)}, n \in lo..hi}

Unset ==
  /\ candidate_links = <<>>
  /\ features = NoFrame
  /\ pairs = NoFrame
  /\ df1_prefixed = NoFrame
  /\ df2_prefixed = NoFrame
  /\ merged = NoFrame
  /\ matches = NoFrame
  /\ all_csv = NoFile
  /\ linked_csv = NoFile

Init ==
  /\ pc = "preprocess_df1"
  /\ sheet1 \in Sheets("employee_id", 100, SheetValues, 0, MaxRows)
  /\ sheet2 \in Sheets("student_id", 200, SheetValues, 0, MaxRows)
  /\ df1 = sheet1
  /\ df2 = sheet2
  /\ Unset

InitWide ==
  /\ pc = "preprocess_df1"
  /\ sheet1 \in Sheets("employee_id", 100, WideValues, 1, 1)
  /\ sheet2 \in Sheets("student_id", 200, WideValues, 1, 1)
  /\ df1 = sheet1
  /\ df2 = sheet2
  /\ Unset

\* if 'birthdate' in d.columns: d['birthdate'] = pd.to_datetime(...)
preprocess(d) ==
  IF "birthdate" \in ColumnSet(d)
  THEN SetColumn(d, "birthdate",
                 [k \in 1..Len(d.rows) |-> to_datetime(GetColumn(d, "birthdate")[k])])
  ELSE d

PreprocessDf1 ==
  /\ pc = "preprocess_df1"
  /\ df1' = preprocess(df1)
  /\ pc' = "preprocess_df2"
  /\ UNCHANGED <<sheet1, sheet2, df2, candidate_links, features, pairs, df1_prefixed,
                 df2_prefixed, merged, matches, all_csv, linked_csv>>

PreprocessDf2 ==
  /\ pc = "preprocess_df2"
  /\ df2' = preprocess(df2)
  /\ pc' = "index"
  /\ UNCHANGED <<sheet1, sheet2, df1, candidate_links, features, pairs, df1_prefixed,
                 df2_prefixed, merged, matches, all_csv, linked_csv>>

Index ==
  /\ pc = "index"
  /\ candidate_links' = full_index(df1, df2)
  /\ pc' = "compare"
  /\ UNCHANGED <<sheet1, sheet2, df1, df2, features, pairs, df1_prefixed, df2_prefixed,
                 merged, matches, all_csv, linked_csv>>

Compare ==
  /\ pc = "compare"
  /\ IF KeyError(df1, df2)
     THEN /\ pc' = "aborted"
          /\ UNCHANGED features
     ELSE /\ features' = compute(candidate_links, df1, df2)
          /\ pc' = "match_score"
  /\ UNCHANGED <<sheet1, sheet2, df1, df2, candidate_links, pairs, df1_prefixed,
                 df2_prefixed, merged, matches, all_csv, linked_csv>>

\* features['match_score'] = features.sum(axis=1)
MatchScore ==
  /\ pc = "match_score"
  /\ features' = AddColumn(features, "match_score",
                           [k \in 1..Len(features.rows) |->
                              Float(sum_axis1(features)[k])])
  /\ pc' = "reset_index"
  /\ UNCHANGED <<sheet1, sheet2, df1, df2, candidate_links, pairs, df1_prefixed,
                 df2_prefixed, merged, matches, all_csv, linked_csv>>

ResetIndex ==
  /\ pc = "reset_index"
  /\ pairs' = reset_index(features)
  /\ pc' = "add_prefix"
  /\ UNCHANGED <<sheet1, sheet2, df1, df2, candidate_links, features, df1_prefixed,
                 df2_prefixed, merged, matches, all_csv, linked_csv>>

AddPrefix ==
  /\ pc = "add_prefix"
  /\ df1_prefixed' = add_prefix(df1, "df1_")
  /\ df2_prefixed' = add_prefix(df2, "df2_")
  /\ pc' = "merge"
  /\ UNCHANGED <<sheet1, sheet2, df1, df2, candidate_links, features, pairs, merged,
                 matches, all_csv, linked_csv>>

Merge ==
  /\ pc = "merge"
  /\ merged' = merge_left(merge_left(pairs, "level_0", df1_prefixed),
                          "level_1", df2_prefixed)
  /\ pc' = "drop"
  /\ UNCHANGED <<sheet1, sheet2, df1, df2, candidate_links, features, pairs, df1_prefixed,
                 df2_prefixed, matches, all_csv, linked_csv>>

Drop ==
  /\ pc = "drop"
  /\ merged' = drop(merged, {"level_0", "level_1"})
  /\ pc' = "save_all"
  /\ UNCHANGED <<sheet1, sheet2, df1, df2, candidate_links, features, pairs, df1_prefixed,
                 df2_prefixed, matches, all_csv, linked_csv>>

SaveAll ==
  /\ pc = "save_all"
  /\ all_csv' = to_csv(merged)
  /\ pc' = "select"
  /\ UNCHANGED <<sheet1, sheet2, df1, df2, candidate_links, features, pairs, df1_prefixed,
                 df2_prefixed, merged, matches, linked_csv>>

Select ==
  /\ pc = "select"
  /\ matches' = Filter(merged, [k \in 1..Len(merged.rows) |->
                                  high_confidence(merged, merged.rows[k])])
  /\ pc' = "save_matches"
  /\ UNCHANGED <<sheet1, sheet2, df1, df2, candidate_links, features, pairs, df1_prefixed,
                 df2_prefixed, merged, all_csv, linked_csv>>

SaveMatches ==
  /\ pc = "save_matches"
  /\ linked_csv' = to_csv(matches)
  /\ pc' = "done"
  /\ UNCHANGED <<sheet1, sheet2, df1, df2, candidate_links, features, pairs, df1_prefixed,
                 df2_prefixed, merged, matches, all_csv>>

Next ==
  \/ PreprocessDf1
  \/ PreprocessDf2
  \/ Index
  \/ Compare
  \/ MatchScore
  \/ ResetIndex
  \/ AddPrefix
  \/ Merge
  \/ Drop
  \/ SaveAll
  \/ Select
  \/ SaveMatches

Spec == Init /\ [][Next]_vars

SpecWide == InitWide /\ [][Next]_vars

(***************************************************************************)
(* Properties.                                                             *)
(***************************************************************************)
Steps == <<"preprocess_df1", "preprocess_df2", "index", "compare",
           "match_score", "reset_index", "add_prefix", "merge", "drop",
           "save_all", "select", "save_matches", "done">>

StepNo(p) == CHOOSE k \in 1..Len(Steps) : Steps[k] = p

\* the run has not aborted and has taken every step before the one labelled p
Reached(p) == pc # "aborted" /\ StepNo(pc) >= StepNo(p)

Indexed == pc \notin {"preprocess_df1", "preprocess_df2", "index"}

ScoreLabel == [c \in {"first_name", "last_name", "birthdate", "city"} |->
                 "prob_" \o c]

CompareFields == {"first_name", "last_name", "birthdate", "city"}

Cell(df, row, name) == row[ColPos(df, name)]

One == Float(Scale)
Zero == Float(0)

\* a compared attribute is absent from one of the two sheets
Absent ==
  \E c \in CompareFields : c \notin ColumnSet(sheet1) \/ c \notin ColumnSet(sheet2)

\* the compared cells of the two rows of the pair features.index[k]
LeftCell(k, c) == Cell(df1, loc(df1, features.index[k][1]), c)
RightCell(k, c) == Cell(df2, loc(df2, features.index[k][2]), c)
Score(k, c) == Cell(features, features.rows[k], ScoreLabel[c])

\* C1: the candidate pairs are exactly the n*m pairs (i, j), 0 <= i < n,
\* 0 <= j < m, each once; an empty table gives no pair and no error.
C1_FullCrossProduct ==
  Indexed =>
    LET n == Len(df1.rows)
        m == Len(df2.rows)
    IN  /\ Len(candidate_links) = n * m
        /\ \A k \in 1..Len(candidate_links) :
             /\ candidate_links[k][1] \in 0..(n - 1)
             /\ candidate_links[k][2] \in 0..(m - 1)
        /\ \A i \in 0..(n - 1), j \in 0..(m - 1) :
             Cardinality({k \in 1..Len(candidate_links) :
                            candidate_links[k] = <<i, j>>}) = 1

C1_Witness ==
  /\ pc = "compare"
  /\ Len(df1.rows) = 2 /\ Len(df2.rows) = 2
  /\ Len(candidate_links) = 4

\* C2: the matches file is the all-pairs file cut down to the rows whose
\* match score is strictly above 3.0, in the same order.
C2_MatchesAreStrictlyAboveThreshold ==
  linked_csv.written =>
    /\ linked_csv.columns = all_csv.columns
    /\ linked_csv.rows =
         SelectSeq(all_csv.rows,
                   LAMBDA r : Cell(all_csv, r, "match_score").v[1] > 3 * Scale)

C2_Witness ==
  /\ pc = "done"
  /\ Len(all_csv.rows) = 4 /\ Len(linked_csv.rows) = 2
  /\ \E k \in 1..4 : Cell(all_csv, all_csv.rows[k], "match_score").v[1] = 3 * Scale
  /\ linked_csv.rows[1] # linked_csv.rows[2]

\* C3: the match score of a pair is the sum of its four scores and nothing
\* else, and lies between 0.0 and 4.0.
C3_MatchScoreIsSumOfFourScores ==
  LET ok(df, r) ==
        LET ms == Cell(df, r, "match_score").v[1]
        IN  /\ ms = Cell(df, r, "prob_first_name").v[1]
                    + Cell(df, r, "prob_last_name").v[1]
                    + Cell(df, r, "prob_birthdate").v[1]
                    + Cell(df, r, "prob_city").v[1]
            /\ ms >= 0 /\ ms <= 4 * Scale
  IN  /\ Reached("reset_index") =>
           \A k \in 1..Len(features.rows) : ok(features, features.rows[k])
      /\ all_csv.written =>
           \A k \in 1..Len(all_csv.rows) : ok(all_csv, all_csv.rows[k])

C3_Witness ==
  /\ pc = "done"
  /\ Len(all_csv.rows) = 4
  /\ LET ms == Cell(all_csv, all_csv.rows[4], "match_score").v[1]
     IN  ms > 3 * Scale /\ ms < 4 * Scale

\* C4: the all-pairs file has one row per pair, in the order of the pairs
\* (row i of A outermost), and the row of (i, j) is the scores of (i, j),
\* then row i of A, then row j of B.
C4_AllPairsJoinedByPosition ==
  all_csv.written =>
    LET n == Len(df1.rows)
        m == Len(df2.rows)
        scores(p) ==
          features.rows[CHOOSE k \in 1..Len(features.index) : features.index[k] = p]
    IN  /\ Len(all_csv.rows) = n * m
        /\ \A i \in 1..n, j \in 1..m :
             all_csv.rows[(i - 1) * m + j] =
               scores(<<i - 1, j - 1>>) \o df1.rows[i] \o df2.rows[j]

C4_Witness ==
  /\ pc = "done"
  /\ Len(df1.rows) = 2 /\ Len(df2.rows) = 2
  /\ Len(all_csv.rows) = 4
  /\ Cell(df1, df1.rows[1], "first_name") # Cell(df1, df1.rows[2], "first_name")
  /\ Cell(df2, df2.rows[1], "city") # Cell(df2, df2.rows[2], "city")

\* C5: a compared field that is missing in the row of A or of B scores 0.0.
C5_MissingFieldScoresZero ==
  Reached("match_score") =>
    \A k \in 1..Len(features.index), c \in CompareFields :
      (isnull(LeftCell(k, c)) \/ isnull(RightCell(k, c))) => Score(k, c) = Zero

C5_Witness ==
  /\ pc = "done"
  /\ Len(features.index) = 1
  /\ isnull(LeftCell(1, "city")) /\ ~isnull(RightCell(1, "city"))
  /\ isnull(LeftCell(1, "birthdate")) /\ isnull(RightCell(1, "birthdate"))
  /\ ~isnull(LeftCell(1, "first_name")) /\ isnull(RightCell(1, "first_name"))
  /\ Score(1, "city") = Zero /\ Score(1, "birthdate") = Zero

\* C6: a compared field holding the same value in the row of A and in the row
\* of B scores 1.0.
C6_IdenticalFieldScoresOne ==
  Reached("match_score") =>
    \A k \in 1..Len(features.index), c \in CompareFields :
      (/\ ~isnull(LeftCell(k, c)) /\ ~isnull(RightCell(k, c))
       /\ LeftCell(k, c) = RightCell(k, c)) => Score(k, c) = One

C6_Witness ==
  /\ pc = "done"
  /\ Len(features.index) = 1
  /\ LeftCell(1, "first_name") = Str(John) /\ RightCell(1, "first_name") = Str(John)
  /\ Cell(sheet1, sheet1.rows[1], "birthdate") = Str(Iso1990)
  /\ Cell(sheet2, sheet2.rows[1], "birthdate") = Timestamp(1990, 1, 1)
  /\ Score(1, "first_name") = One /\ Score(1, "birthdate") = One

\* the columns of the two files when the attributes of A carry the prefix pa
\* and those of B the prefix pb
OutputColumns(pa, pb) ==
  <<"prob_first_name", "prob_last_name", "prob_birthdate", "prob_city",
    "match_score">>
    \o [k \in 1..Len(sheet1.columns) |-> pa \o sheet1.columns[k]]
    \o [k \in 1..Len(sheet2.columns) |-> pb \o sheet2.columns[k]]

\* C7 as stated: the columns of both files are the four scores, match_score,
\* the attributes of A prefixed a_, the attributes of B prefixed b_.
C7_ColumnsPrefixedAB ==
  /\ all_csv.written => all_csv.columns = OutputColumns("a_", "b_")
  /\ linked_csv.written => linked_csv.columns = OutputColumns("a_", "b_")

\* C7 as amended: the columns of both files are the four scores, match_score,
\* the attributes of A prefixed df1_, the attributes of B prefixed df2_; no
\* index column and no attribute under another name.
C7_ColumnsPrefixedDf ==
  /\ all_csv.written => all_csv.columns = OutputColumns("df1_", "df2_")
  /\ linked_csv.written => linked_csv.columns = OutputColumns("df1_", "df2_")

C7_Witness ==
  /\ pc = "done"
  /\ Len(all_csv.rows) = 4 /\ Len(linked_csv.rows) >= 1
  /\ all_csv.columns[6] = "df1_employee_id"
  /\ all_csv.columns[11] = "df2_student_id"

\* C8: a compared attribute absent from a sheet does not abort the run; once
\* the scores are computed the score of that attribute is 0.0 for every pair.
C8_AbsentAttributeIsTolerated ==
  Absent =>
    /\ pc # "aborted"
    /\ Reached("match_score") =>
         \A k \in 1..Len(features.index), c \in CompareFields :
           (c \notin ColumnSet(sheet1) \/ c \notin ColumnSet(sheet2))
             => Score(k, c) = Zero

\* a birthdate cell of a sheet that is no date
Unparseable(sheet, i) ==
  /\ "birthdate" \in ColumnSet(sheet)
  /\ Cell(sheet, sheet.rows[i], "birthdate") \in {Str(NoDate), Str(Feb30)}

\* C9: a birthdate that is no date does not abort the run; it is made a
\* missing value, every pair of its row has prob_birthdate 0.0, and every such
\* pair has its row in the all-pairs file.
C9_UnparseableBirthdateIsMissing ==
  /\ pc = "aborted" => Absent
  /\ \A i \in 1..Len(sheet1.rows) :
       Unparseable(sheet1, i) =>
         /\ pc # "preprocess_df1" => Cell(df1, df1.rows[i], "birthdate") = NaT
         /\ Reached("match_score") =>
              \A k \in 1..Len(features.index) :
                features.index[k][1] = i - 1 => Score(k, "birthdate") = Zero
         /\ all_csv.written =>
              \A j \in 1..Len(sheet2.rows) :
                \E r \in 1..Len(all_csv.rows) :
                  /\ Cell(all_csv, all_csv.rows[r], "df1_employee_id")
                       = Cell(sheet1, sheet1.rows[i], "employee_id")
                  /\ Cell(all_csv, all_csv.rows[r], "df2_student_id")
                       = Cell(sheet2, sheet2.rows[j], "student_id")
                  /\ Cell(all_csv, all_csv.rows[r], "prob_birthdate") = Zero
  /\ \A j \in 1..Len(sheet2.rows) :
       Unparseable(sheet2, j) =>
         /\ pc \notin {"preprocess_df1", "preprocess_df2"}
              => Cell(df2, df2.rows[j], "birthdate") = NaT
         /\ Reached("match_score") =>
              \A k \in 1..Len(features.index) :
                features.index[k][2] = j - 1 => Score(k, "birthdate") = Zero
         /\ all_csv.written =>
              \A i \in 1..Len(sheet1.rows) :
                \E r \in 1..Len(all_csv.rows) :
                  /\ Cell(all_csv, all_csv.rows[r], "df1_employee_id")
                       = Cell(sheet1, sheet1.rows[i], "employee_id")
                  /\ Cell(all_csv, all_csv.rows[r], "df2_student_id")
                       = Cell(sheet2, sheet2.rows[j], "student_id")
                  /\ Cell(all_csv, all_csv.rows[r], "prob_birthdate") = Zero

C9_Witness ==
  /\ pc = "done"
  /\ Unparseable(sheet1, 1)
  /\ Cell(sheet2, sheet2.rows[1], "birthdate") = Cell(sheet1, sheet1.rows[1], "birthdate")
  /\ Len(all_csv.rows) = 1
  /\ Cell(all_csv, all_csv.rows[1], "prob_birthdate") = Zero
  /\ Cell(all_csv, all_csv.rows[1], "match_score") = Float(3 * Scale)

\* C10: every row of the matches file has prob_birthdate 1.0 and the three
\* other scores above 0.0: none of its compared fields is missing on either
\* side and its two birthdates are the same.
C10_MatchesHaveEveryFieldPresent ==
  linked_csv.written =>
    \A k \in 1..Len(linked_csv.rows) :
      LET r == linked_csv.rows[k]
      IN  /\ Cell(linked_csv, r, "prob_birthdate") = One
          /\ Cell(linked_csv, r, "prob_first_name").v[1] > 0
          /\ Cell(linked_csv, r, "prob_last_name").v[1] > 0
          /\ Cell(linked_csv, r, "prob_city").v[1] > 0
          /\ \A c \in CompareFields :
               /\ ~isnull(Cell(linked_csv, r, "df1_" \o c))
               /\ ~isnull(Cell(linked_csv, r, "df2_" \o c))
          /\ Cell(linked_csv, r, "df1_birthdate") = Cell(linked_csv, r, "df2_birthdate")

C10_Witness ==
  /\ pc = "done"
  /\ Len(linked_csv.rows) = 1
  /\ Cell(linked_csv, linked_csv.rows[1], "match_score").v[1] < 4 * Scale
  /\ Cell(linked_csv, linked_csv.rows[1], "prob_birthdate") = One
====
